---- MODULE Spec2Model ----
(***************************************************************************)
(* Backtesting engine of market_invest: the strategies of                  *)
(* src/src/strategies.py, the metrics of src/src/metrics.py and the two    *)
(* flows of src/app.py that call them (single strategy, compare all).      *)
(*                                                                         *)
(* Floating-point values are modelled as exact extended rationals: a pair  *)
(* <<n, d>> in lowest terms with d >= 0, where <<1,0>> is +infinity,       *)
(* <<-1,0>> is -infinity and <<0,0>> is NaN.  Rounding is not modelled.    *)
(***************************************************************************)
EXTENDS Integers, Sequences, FiniteSets, TLC

\* ------------------------------------------------------------------ bounds
MaxLen == 3
MaxWindow == 2

\* ------------------------------------------------- extended rational numbers
Abs(x) == IF x < 0 THEN -x ELSE x

Sgn(x) == IF x < 0 THEN -1 ELSE IF x > 0 THEN 1 ELSE 0

RECURSIVE GCD(_, _)
GCD(a, b) == IF b = 0 THEN a ELSE GCD(b, a % b)

Rat(n, d) ==
    IF d = 0 THEN <<Sgn(n), 0>>
    ELSE LET g == GCD(Abs(n), Abs(d))
         IN  <<(Sgn(d) * n) \div g, Abs(d) \div g>>

R(n) == <<n, 1>>

NaN == <<0, 0>>

Inf == <<1, 0>>

NegInf == <<-1, 0>>

IsNaN(x) == x = NaN

IsInf(x) == x = Inf \/ x = NegInf

IsFinite(x) == x[2] # 0

Mul(x, y) == Rat(x[1] * y[1], x[2] * y[2])

Neg(x) == <<-x[1], x[2]>>

Add(x, y) ==
    IF x[2] = 0 /\ y[2] = 0
    THEN (IF IsNaN(x) \/ IsNaN(y) \/ x # y THEN NaN ELSE x)
    ELSE Rat(x[1] * y[2] + y[1] * x[2], x[2] * y[2])

Sub(x, y) == Add(x, Neg(y))

Inv(x) == Rat(x[2], x[1])

Div(x, y) == Mul(x, Inv(y))

Less(x, y) ==
    /\ ~IsNaN(x)
    /\ ~IsNaN(y)
    /\ IF x[2] = 0 /\ y[2] = 0 THEN x[1] < y[1]
       ELSE x[1] * y[2] < y[1] * x[2]

Greater(x, y) == Less(y, x)

Leq(x, y) == ~IsNaN(x) /\ ~IsNaN(y) /\ ~Less(y, x)

Geq(x, y) == Leq(y, x)

\* ------------------------------------------------------- pandas Series ops
\* a column as a sequence of values
Col(f) == SubSeq(f, 1, Len(f))

\* faulty variant: no shift
ShiftNone(s) == s

\* Series.shift(1)
Shift(s) == Col([t \in 1..Len(s) |-> IF t = 1 THEN NaN ELSE s[t - 1]])

\* Series.fillna(0)
FillNa0(s) == Col([t \in 1..Len(s) |-> IF IsNaN(s[t]) THEN R(0) ELSE s[t]])

\* Series.pct_change(): s[t] / s[t-1] - 1, NaN on the first row
PctChange(s) ==
    Col([t \in 1..Len(s) |-> IF t = 1 THEN NaN ELSE Sub(Div(s[t], s[t - 1]), R(1))])

\* Series.diff(): s[t] - s[t-1], NaN on the first row
Diff(s) == Col([t \in 1..Len(s) |-> IF t = 1 THEN NaN ELSE Sub(s[t], s[t - 1])])

\* product of the non-NaN entries of s[1..t]
RECURSIVE ProdUpTo(_, _)
ProdUpTo(s, t) ==
    IF t = 0 THEN R(1)
    ELSE IF IsNaN(s[t]) THEN ProdUpTo(s, t - 1)
    ELSE Mul(ProdUpTo(s, t - 1), s[t])

\* sum of the non-NaN entries of s[1..t]
RECURSIVE SumUpTo(_, _)
SumUpTo(s, t) ==
    IF t = 0 THEN R(0)
    ELSE IF IsNaN(s[t]) THEN SumUpTo(s, t - 1)
    ELSE Add(SumUpTo(s, t - 1), s[t])

\* faulty variant: cumsum() in place of cumprod()
CumSum(s) == Col([t \in 1..Len(s) |-> IF IsNaN(s[t]) THEN NaN ELSE SumUpTo(s, t)])

\* Series.cumprod() (skipna: a NaN entry stays NaN and is left out of the product)
CumProd(s) == Col([t \in 1..Len(s) |-> IF IsNaN(s[t]) THEN NaN ELSE ProdUpTo(s, t)])

\* running maximum of the non-NaN entries of s[1..t]; NaN when there is none
RECURSIVE MaxUpTo(_, _)
MaxUpTo(s, t) ==
    IF t = 0 THEN NaN
    ELSE LET m == MaxUpTo(s, t - 1)
         IN  IF IsNaN(s[t]) THEN m
             ELSE IF IsNaN(m) \/ Less(m, s[t]) THEN s[t] ELSE m

\* faulty variant: max() in place of cummax()
OverallMax(s) == Col([t \in 1..Len(s) |-> MaxUpTo(s, Len(s))])

\* Series.cummax()
CumMax(s) == Col([t \in 1..Len(s) |-> IF IsNaN(s[t]) THEN NaN ELSE MaxUpTo(s, t)])

\* Series.sum() over finite values
RECURSIVE SumSeq(_)
SumSeq(s) == IF s = <<>> THEN R(0) ELSE Add(Head(s), SumSeq(Tail(s)))

\* Series.min() (skipna); NaN on an empty series
RECURSIVE MinSeq(_)
MinSeq(s) ==
    IF s = <<>> THEN NaN
    ELSE LET m == MinSeq(Tail(s))
         IN  IF IsNaN(Head(s)) THEN m
             ELSE IF IsNaN(m) \/ Less(Head(s), m) THEN Head(s) ELSE m

\* the finite entries of s, in order
Finite(s) == SelectSeq(s, IsFinite)

IsPositive(x) == Less(R(0), x)

IsNegative(x) == Less(x, R(0))

\* elementwise product / sum of two aligned columns
MulSeq(a, b) == Col([t \in 1..Len(a) |-> Mul(a[t], b[t])])

SubSeq2(a, b) == Col([t \in 1..Len(a) |-> Sub(a[t], b[t])])

\* 1 + s
OnePlus(s) == Col([t \in 1..Len(s) |-> Add(R(1), s[t])])

\* ------------------------------------------------ indicator library (ta)
\* sum of s[lo..hi]
RECURSIVE SumRange(_, _, _)
SumRange(s, lo, hi) ==
    IF hi < lo THEN R(0) ELSE Add(SumRange(s, lo, hi - 1), s[hi])

HasNaN(s, lo, hi) == \E k \in lo..hi : IsNaN(s[k])

\* Series.rolling(w, min_periods=w).mean()
RollingMean(s, w) ==
    Col([t \in 1..Len(s) |->
        IF t < w \/ HasNaN(s, t - w + 1, t) THEN NaN
        ELSE Div(SumRange(s, t - w + 1, t), R(w))])

\* Series.rolling(w, min_periods=w).var(ddof=0): mean of squares - square of mean
RollingVar(s, w) ==
    LET sq == MulSeq(s, s)
        m  == RollingMean(s, w)
        m2 == RollingMean(sq, w)
    IN  Col([t \in 1..Len(s) |-> Sub(m2[t], Mul(m[t], m[t]))])

\* Series.rolling(w, min_periods=w).min() / .max()
RollingMin(s, w) ==
    Col([t \in 1..Len(s) |->
        IF t < w \/ HasNaN(s, t - w + 1, t) THEN NaN
        ELSE CHOOSE m \in {s[k] : k \in (t - w + 1)..t} :
                \A k \in (t - w + 1)..t : Leq(m, s[k])])

RollingMax(s, w) ==
    Col([t \in 1..Len(s) |->
        IF t < w \/ HasNaN(s, t - w + 1, t) THEN NaN
        ELSE CHOOSE m \in {s[k] : k \in (t - w + 1)..t} :
                \A k \in (t - w + 1)..t : Geq(m, s[k])])

\* number of non-NaN entries of s[1..t]
RECURSIVE CountValid(_, _)
CountValid(s, t) ==
    IF t = 0 THEN 0
    ELSE CountValid(s, t - 1) + (IF IsNaN(s[t]) THEN 0 ELSE 1)

\* the recursion of Series.ewm(alpha, adjust=False).mean():
\* y = x on the first valid row, then y[t] = (1 - alpha) * y[t-1] + alpha * x[t]
RECURSIVE EwmAt(_, _, _)
EwmAt(s, alpha, t) ==
    IF t = 0 THEN NaN
    ELSE LET p == EwmAt(s, alpha, t - 1)
         IN  IF IsNaN(s[t]) THEN p
             ELSE IF IsNaN(p) THEN s[t]
             ELSE Add(Mul(Sub(R(1), alpha), p), Mul(alpha, s[t]))

\* Series.ewm(alpha, min_periods, adjust=False).mean()
Ewm(s, alpha, min_periods) ==
    Col([t \in 1..Len(s) |->
        IF CountValid(s, t) < min_periods THEN NaN ELSE EwmAt(s, alpha, t)])

\* faulty variant: a rolling mean over the window that starts on the row (looks ahead)
SMAForward(close, window) ==
    Col([t \in 1..Len(close) |->
        IF t + window - 1 > Len(close) THEN NaN
        ELSE Div(SumRange(close, t, t + window - 1), R(window))])

\* SMAIndicator(close, window).sma_indicator()
SMA(close, window) == RollingMean(close, window)

\* EMAIndicator(close, window).ema_indicator(): ewm(span=window, min_periods=window)
EMA(close, window) == Ewm(close, Rat(2, window + 1), window)

\* RSIIndicator(close, window).rsi()
RSI(close, window) ==
    LET diff   == Diff(close)
        up     == Col([t \in 1..Len(close) |->
                     IF Greater(diff[t], R(0)) THEN diff[t] ELSE R(0)])
        down   == Col([t \in 1..Len(close) |->
                     IF Less(diff[t], R(0)) THEN Neg(diff[t]) ELSE R(0)])
        emaup  == Ewm(up, Rat(1, window), window)
        emadn  == Ewm(down, Rat(1, window), window)
    IN  Col([t \in 1..Len(close) |->
            IF emadn[t] = R(0) THEN R(100)
            ELSE Sub(R(100), Div(R(100), Add(R(1), Div(emaup[t], emadn[t]))))])

\* MACD(close, window_slow, window_fast, window_sign).macd()
MACDLine(close, slow, fast) == SubSeq2(EMA(close, fast), EMA(close, slow))

\* MACD(...).macd_signal()
MACDSignal(close, slow, fast, sign) == EMA(MACDLine(close, slow, fast), sign)

\* BollingerBands(close, window, window_dev).bollinger_mavg()
BBMid(close, window) == RollingMean(close, window)

\* square of the band half-width window_dev * rolling std (ddof=0); the bands are
\* BB_Mid +/- sqrt(BBDev2), kept squared so that comparisons stay exact
BBDev2(close, window, window_dev) ==
    LET v == RollingVar(close, window)
    IN  Col([t \in 1..Len(close) |-> Mul(Mul(window_dev, window_dev), v[t])])

\* Close >= BB_High, i.e. Close >= mid + sqrt(dev2)
GeqHigh(c, mid, dev2) ==
    /\ ~IsNaN(mid) /\ ~IsNaN(dev2)
    /\ Geq(c, mid)
    /\ Geq(Mul(Sub(c, mid), Sub(c, mid)), dev2)

\* Close <= BB_Low, i.e. Close <= mid - sqrt(dev2)
LeqLow(c, mid, dev2) ==
    /\ ~IsNaN(mid) /\ ~IsNaN(dev2)
    /\ Leq(c, mid)
    /\ Geq(Mul(Sub(c, mid), Sub(c, mid)), dev2)

\* StochasticOscillator(high, low, close, window, smooth_window).stoch()
StochK(high, low, close, window) ==
    LET smin == RollingMin(low, window)
        smax == RollingMax(high, window)
    IN  Col([t \in 1..Len(close) |->
            Div(Mul(R(100), Sub(close[t], smin[t])), Sub(smax[t], smin[t]))])

\* StochasticOscillator(...).stoch_signal()
StochD(high, low, close, window, smooth_window) ==
    RollingMean(StochK(high, low, close, window), smooth_window)

\* ------------------------------------------------------------ strategies
\* faulty variant: the last decided comparison is held on undecided rows
CrossSignalHeld(a, b) ==
    Col([t \in 1..Len(a) |->
        LET decided == {u \in 1..t : Less(a[u], b[u]) \/ Greater(a[u], b[u])}
        IN  IF decided = {} THEN R(0)
            ELSE LET u == CHOOSE v \in decided : \A w \in decided : w <= v
                 IN  IF Less(a[u], b[u]) THEN R(-1) ELSE R(1)])

\* df['Signal'] = 0; df.loc[a > b, 'Signal'] = 1; df.loc[a < b, 'Signal'] = -1
CrossSignal(a, b) ==
    Col([t \in 1..Len(a) |->
        IF Less(a[t], b[t]) THEN R(-1)
        ELSE IF Greater(a[t], b[t]) THEN R(1)
        ELSE R(0)])

\* last non-zero entry of s[1..t], 0 when there is none
RECURSIVE LastNonZero(_, _)
LastNonZero(s, t) ==
    IF t = 0 THEN R(0)
    ELSE IF s[t] # R(0) THEN s[t]
    ELSE LastNonZero(s, t - 1)

\* faulty variant: the triggers are summed up instead of carried forward
Accumulate(s) == Col([t \in 1..Len(s) |-> SumUpTo(s, t)])

\* faulty variant: the triggers are left as they are, nothing is carried
PropagateNothing(s) == s

\* df['Signal'].replace(0, np.nan).ffill().fillna(0)
Propagate(s) == Col([t \in 1..Len(s) |-> LastNonZero(s, t)])

\* initial_capital * df['Cumulative_Returns']
Scale(initial_capital, s) == Col([t \in 1..Len(s) |-> Mul(R(initial_capital), s[t])])

\* Position, Returns, Strategy_Returns, Cumulative_Returns and Portfolio_Value
\* of the six indicator strategies, from a table that has its Signal column
Backtest(df, initial_capital) ==
    LET Position           == Shift(df.Signal)
        Returns            == PctChange(df.Close)
        Strategy_Returns   == FillNa0(MulSeq(Position, Returns))
        Cumulative_Returns == CumProd(OnePlus(Strategy_Returns))
    IN  [Position |-> Position,
         Returns |-> Returns,
         Strategy_Returns |-> Strategy_Returns,
         Cumulative_Returns |-> Cumulative_Returns,
         Portfolio_Value |-> Scale(initial_capital, Cumulative_Returns)] @@ df

Ones(n) == Col([t \in 1..n |-> R(1)])

\* faulty variant: the rows with an undefined Strategy_Returns are dropped
strategy_buy_and_hold_dropna(data, initial_capital) ==
    LET n                  == Len(data.Close)
        Position           == Ones(n)
        Returns            == PctChange(data.Close)
        Strategy_Returns   == MulSeq(Shift(Position), Returns)
        Cumulative_Returns == CumProd(OnePlus(Strategy_Returns))
        full == [Signal |-> Ones(n),
                 Position |-> Position,
                 Returns |-> Returns,
                 Strategy_Returns |-> Strategy_Returns,
                 Cumulative_Returns |-> Cumulative_Returns,
                 Portfolio_Value |-> Scale(initial_capital, Cumulative_Returns)] @@ data
    IN  [c \in DOMAIN full |-> Tail(full[c])]

strategy_buy_and_hold(data, initial_capital) ==
    LET n                  == Len(data.Close)
        Position           == Ones(n)
        Returns            == PctChange(data.Close)
        Strategy_Returns   == MulSeq(Shift(Position), Returns)
        Cumulative_Returns == CumProd(OnePlus(Strategy_Returns))
    IN  [Signal |-> Ones(n),
         Position |-> Position,
         Returns |-> Returns,
         Strategy_Returns |-> Strategy_Returns,
         Cumulative_Returns |-> Cumulative_Returns,
         Portfolio_Value |-> Scale(initial_capital, Cumulative_Returns)] @@ data

strategy_sma_crossover(data, short_window, long_window, initial_capital) ==
    LET SMA_Short == SMA(data.Close, short_window)
        SMA_Long  == SMA(data.Close, long_window)
    IN  Backtest([SMA_Short |-> SMA_Short, SMA_Long |-> SMA_Long,
                  Signal |-> CrossSignal(SMA_Short, SMA_Long)] @@ data,
                 initial_capital)

strategy_ema_crossover(data, short_window, long_window, initial_capital) ==
    LET EMA_Short == EMA(data.Close, short_window)
        EMA_Long  == EMA(data.Close, long_window)
    IN  Backtest([EMA_Short |-> EMA_Short, EMA_Long |-> EMA_Long,
                  Signal |-> CrossSignal(EMA_Short, EMA_Long)] @@ data,
                 initial_capital)

\* df.loc[rsi < oversold, 'Signal'] = 1; df.loc[rsi > overbought, 'Signal'] = -1
RsiSignal(rsi, oversold, overbought) ==
    Col([t \in 1..Len(rsi) |->
        IF Greater(rsi[t], R(overbought)) THEN R(-1)
        ELSE IF Less(rsi[t], R(oversold)) THEN R(1)
        ELSE R(0)])

strategy_rsi(data, rsi_window, oversold, overbought, initial_capital) ==
    LET rsi == RSI(data.Close, rsi_window)
    IN  Backtest([RSI |-> rsi,
                  Signal |-> Propagate(RsiSignal(rsi, oversold, overbought))] @@ data,
                 initial_capital)

strategy_macd(data, fast, slow, signal, initial_capital) ==
    LET macd        == MACDLine(data.Close, slow, fast)
        macd_signal == MACDSignal(data.Close, slow, fast, signal)
    IN  Backtest([MACD |-> macd, MACD_Signal |-> macd_signal,
                  MACD_Hist |-> SubSeq2(macd, macd_signal),
                  Signal |-> CrossSignal(macd, macd_signal)] @@ data,
                 initial_capital)

\* faulty variant: the two assignments in the other order, the buy written last
BollingerSignalBuyLast(close, mid, dev2) ==
    Col([t \in 1..Len(mid) |->
        IF LeqLow(close[t], mid[t], dev2[t]) THEN R(1)
        ELSE IF GeqHigh(close[t], mid[t], dev2[t]) THEN R(-1)
        ELSE R(0)])

\* Signal = 1 where Close <= BB_Low, Signal = -1 where Close >= BB_High
BollingerSignal(close, mid, dev2) ==
    Col([t \in 1..Len(mid) |->
        IF GeqHigh(close[t], mid[t], dev2[t]) THEN R(-1)
        ELSE IF LeqLow(close[t], mid[t], dev2[t]) THEN R(1)
        ELSE R(0)])

strategy_bollinger_bands(data, window, std_dev, initial_capital) ==
    LET mid  == BBMid(data.Close, window)
        dev2 == BBDev2(data.Close, window, R(std_dev))
    IN  Backtest([BB_Mid |-> mid, BB_Dev2 |-> dev2,
                  Signal |-> Propagate(BollingerSignal(data.Close, mid, dev2))] @@ data,
                 initial_capital)

\* Signal = 1 where %K > %D and %K < oversold, -1 where %K < %D and %K > overbought
StochSignal(k, d, oversold, overbought) ==
    Col([t \in 1..Len(k) |->
        IF Less(k[t], d[t]) /\ Greater(k[t], R(overbought)) THEN R(-1)
        ELSE IF Greater(k[t], d[t]) /\ Less(k[t], R(oversold)) THEN R(1)
        ELSE R(0)])

strategy_stochastic(data, k_window, d_window, oversold, overbought, initial_capital) ==
    LET k == StochK(data.High, data.Low, data.Close, k_window)
        d == StochD(data.High, data.Low, data.Close, k_window, d_window)
    IN  Backtest([Stoch_K |-> k, Stoch_D |-> d,
                  Signal |-> Propagate(StochSignal(k, d, oversold, overbought))] @@ data,
                 initial_capital)

\* the registry, in insertion order
STRATEGIES ==
    <<"Buy and Hold", "SMA Crossover", "EMA Crossover", "RSI", "MACD",
      "Bollinger Bands", "Stochastic">>

\* keyword defaults of the strategy functions
DefaultParams ==
    [short_window_sma |-> 20, long_window_sma |-> 50,
     short_window_ema |-> 12, long_window_ema |-> 26,
     rsi_window |-> 14, rsi_oversold |-> 30, rsi_overbought |-> 70,
     fast |-> 12, slow |-> 26, signal |-> 9,
     window |-> 20, std_dev |-> 2,
     k_window |-> 14, d_window |-> 3, oversold |-> 20, overbought |-> 80]

\* a strategy raises KeyError when a column it reads is missing
Raises(name, data) ==
    \/ "Close" \notin DOMAIN data
    \/ name = "Stochastic" /\ ~({"High", "Low"} \subseteq DOMAIN data)

\* faulty variant: without the copy the columns are assigned on the argument
ArgumentAliased(data, returned) == returned

\* df = data.copy(): the columns are assigned on the copy, so the table passed
\* as argument holds after the call what it held before
ArgumentAfterCall(data, returned) == data

\* STRATEGIES[name](data, initial_capital=initial_capital, **params)
CallStrategy(name, data, p, initial_capital) ==
    CASE name = "Buy and Hold" ->
           strategy_buy_and_hold(data, initial_capital)
      [] name = "SMA Crossover" ->
           strategy_sma_crossover(data, p.short_window_sma, p.long_window_sma,
                                  initial_capital)
      [] name = "EMA Crossover" ->
           strategy_ema_crossover(data, p.short_window_ema, p.long_window_ema,
                                  initial_capital)
      [] name = "RSI" ->
           strategy_rsi(data, p.rsi_window, p.rsi_oversold, p.rsi_overbought,
                        initial_capital)
      [] name = "MACD" ->
           strategy_macd(data, p.fast, p.slow, p.signal, initial_capital)
      [] name = "Bollinger Bands" ->
           strategy_bollinger_bands(data, p.window, p.std_dev, initial_capital)
      [] name = "Stochastic" ->
           strategy_stochastic(data, p.k_window, p.d_window, p.oversold,
                               p.overbought, initial_capital)

\* --------------------------------------------------------------- metrics
\* Values that are irrational in general (a fractional power, a square root and
\* ratios of them) are kept as expressions: Exact(q) is the rational q.
Exact(q) == [k |-> "rat", v |-> q]

IsZero(e) == e = Exact(R(0))

ExprDiv(a, b) ==
    IF a.k = "rat" /\ b.k = "rat" THEN Exact(Div(a.v, b.v))
    ELSE [k |-> "div", num |-> a, den |-> b]

ExprSub(a, b) ==
    IF a.k = "rat" /\ b.k = "rat" THEN Exact(Sub(a.v, b.v))
    ELSE [k |-> "sub", l |-> a, r |-> b]

ExprTimes100(a) ==
    IF a.k = "rat" THEN Exact(Mul(a.v, R(100))) ELSE [k |-> "times100", of |-> a]

\* trading_days = 252
trading_days == 252

\* default of the risk_free_rate parameter, 0.02
DefaultRiskFreeRate == Rat(2, 100)

\* len(df)
NRows(df) == Len(df[CHOOSE c \in DOMAIN df : TRUE])

\* Series.mean()
Mean(s) == Div(SumSeq(s), R(Len(s)))

\* square of Series.std() (ddof=1); NaN for fewer than 2 values
SampleVar(s) ==
    IF Len(s) < 2 THEN NaN
    ELSE LET m  == Mean(s)
             sq == Col([t \in 1..Len(s) |-> Mul(Sub(s[t], m), Sub(s[t], m))])
         IN  Div(SumSeq(sq), R(Len(s) - 1))

\* number of entries of s that are not 0 (NaN counts: NaN != 0 is True)
CountNonZero(s) == Cardinality({t \in 1..Len(s) : s[t] # R(0)})

\* faulty variant: the diff without fillna(0)
position_changes_nofill(df) == Diff(df.Position)

\* df['Position'].diff().fillna(0)
position_changes(df) == FillNa0(Diff(df.Position))

\* 10^k
RECURSIVE Pow10(_)
Pow10(k) == IF k = 0 THEN 1 ELSE 10 * Pow10(k - 1)

\* the decimal number with k fractional digits nearest to the finite x
\* (ties to even), what "{:.kf}".format(x) prints
RoundTo(x, k) ==
    LET n == x[1] * Pow10(k)
        d == x[2]
        q == n \div d
        r == n % d
        up == IF 2 * r > d THEN 1
              ELSE IF 2 * r = d THEN q % 2
              ELSE 0
    IN  Rat(q + up, Pow10(k))

NA == [text |-> "N/A"]

\* the value None
NoValue == <<>>

\* a value or a cell that holds text instead of a number
Text == <<"text">>

IsNoValue(x) == Len(x) = 0

IsText(x) == Len(x) = 1

\* faulty variant: only NaN is tested, an infinity is formatted as it is
safe_value_nan_only(value, k, suffix) ==
    IF IsNoValue(value) THEN NA
    ELSE IF IsText(value) THEN NA
    ELSE IF IsNaN(value) THEN NA
    ELSE IF IsInf(value) THEN [number |-> value, decimals |-> k, suffix |-> suffix]
    ELSE [number |-> RoundTo(value, k), decimals |-> k, suffix |-> suffix]

\* safe_value(value, "{:.kf}", suffix): "N/A" for None, for a NaN or infinite
\* float, and for a value the format raises on (text, caught by the except)
safe_value(value, k, suffix) ==
    IF IsNoValue(value) THEN NA
    ELSE IF IsText(value) THEN NA
    ELSE IF ~IsFinite(value) THEN NA
    ELSE [number |-> RoundTo(value, k), decimals |-> k, suffix |-> suffix]

\* the expression is not 0: a non-zero rational, or the root of a positive one
ExprNonZero(e) ==
    CASE e.k = "rat" -> IsFinite(e.v) /\ e.v # R(0)
      [] e.k = "sqrt" -> IsFinite(e.of) /\ Greater(e.of, R(0))
      [] OTHER -> FALSE

\* the float the expression stands for is finite (neither NaN nor infinite)
RECURSIVE ExprIsFinite(_)
ExprIsFinite(e) ==
    CASE e.k = "rat" -> IsFinite(e.v)
      [] e.k = "pow_minus_1" ->
           IsFinite(e.base) /\ Greater(e.base, R(0)) /\ IsFinite(e.exp)
      [] e.k = "sqrt" -> IsFinite(e.of) /\ Geq(e.of, R(0))
      [] e.k = "div" -> ExprIsFinite(e.num) /\ ExprIsFinite(e.den) /\ ExprNonZero(e.den)
      [] e.k = "sub" -> ExprIsFinite(e.l) /\ ExprIsFinite(e.r)
      [] e.k = "times100" -> ExprIsFinite(e.of)

\* safe_value of a value kept as an expression
safe_expr(e, k, suffix) ==
    IF e.k = "rat" THEN safe_value(e.v, k, suffix)
    ELSE IF ~ExprIsFinite(e) THEN NA
    ELSE [expr |-> e, decimals |-> k, suffix |-> suffix]

\* faulty variant: the division is made whatever the sign of initial_value
TotalReturnUnguarded(initial_value, final_value) ==
    Sub(Div(final_value, initial_value), R(1))

\* faulty variant: the growth factor, the 1 is not subtracted
TotalReturnFactor(initial_value, final_value) ==
    IF Greater(initial_value, R(0))
    THEN Div(final_value, initial_value)
    ELSE R(0)

\* total_return = (final_value / initial_value) - 1 if initial_value > 0 else 0
TotalReturn(initial_value, final_value) ==
    IF Greater(initial_value, R(0))
    THEN Sub(Div(final_value, initial_value), R(1))
    ELSE R(0)

\* annual_return = (1 + total_return) ** (trading_days / n_days) - 1
\* if n_days > 0 and total_return > -1 else 0
AnnualReturn(total_return, n_days) ==
    IF n_days > 0 /\ Greater(total_return, R(-1))
    THEN (IF total_return = R(0) THEN Exact(R(0))
          ELSE [k |-> "pow_minus_1",
                base |-> Add(R(1), total_return),
                exp |-> Rat(trading_days, n_days)])
    ELSE Exact(R(0))

\* annual_volatility = daily_vol * sqrt(trading_days), 0 when daily_vol is NaN or 0
AnnualVolatility(daily_var) ==
    IF IsNaN(daily_var) \/ daily_var = R(0)
    THEN Exact(R(0))
    ELSE [k |-> "sqrt", of |-> Mul(daily_var, R(trading_days))]

\* sharpe_ratio = excess_return / annual_volatility if annual_volatility > 0 else 0
SharpeRatio(excess_return, annual_volatility) ==
    IF annual_volatility.k = "sqrt"
    THEN ExprDiv(excess_return, annual_volatility)
    ELSE Exact(R(0))

\* sortino_ratio = excess_return / (negative_returns.std() * sqrt(trading_days))
\* when there are negative returns and their deviation is positive, else 0
SortinoRatio(excess_return, negative_returns, downside_var) ==
    IF Len(negative_returns) > 0
        /\ ~IsNaN(downside_var) /\ Greater(downside_var, R(0))
    THEN ExprDiv(excess_return,
                 [k |-> "sqrt", of |-> Mul(downside_var, R(trading_days))])
    ELSE Exact(R(0))

\* drawdown = ((cumulative - running_max) / running_max)
\*               .replace([inf, -inf], nan).dropna()
Drawdown(cumulative, running_max) ==
    Finite(Col([t \in 1..Len(cumulative) |->
        Div(Sub(cumulative[t], running_max[t]), running_max[t])]))

\* running_max = cumulative.cummax(), and the drawdown from it
RunningDrawdown(cumulative) == Drawdown(cumulative, CumMax(cumulative))

\* max_drawdown = drawdown.min() if len(drawdown) > 0 else 0
DrawdownMin(drawdown) == IF Len(drawdown) > 0 THEN MinSeq(drawdown) ELSE R(0)

\* if np.isnan(max_drawdown): max_drawdown = 0
NanToZero(x) == IF IsNaN(x) THEN R(0) ELSE x

\* cumulative = (1 + returns).cumprod(), and the maximum drawdown of it
MaxDrawdown(returns) ==
    NanToZero(DrawdownMin(RunningDrawdown(CumProd(OnePlus(returns)))))

\* calmar_ratio = annual_return / abs(max_drawdown) if max_drawdown != 0 else 0
CalmarRatio(annual_return, max_drawdown) ==
    IF max_drawdown # R(0)
    THEN ExprDiv(annual_return, Exact(Rat(Abs(max_drawdown[1]), max_drawdown[2])))
    ELSE Exact(R(0))

\* faulty variant: the periods with a return of 0 are left out of the count
WinRateOfMoves(returns, winning_trades) ==
    IF CountNonZero(returns) > 0
    THEN Mul(Rat(Len(winning_trades), CountNonZero(returns)), R(100))
    ELSE R(0)

\* win_rate = len(winning_trades) / len(returns) * 100 if len(returns) > 0 else 0
WinRate(returns, winning_trades) ==
    IF Len(returns) > 0
    THEN Mul(Rat(Len(winning_trades), Len(returns)), R(100))
    ELSE R(0)

\* avg_win, avg_loss: trades.mean() if len(trades) > 0 else 0
MeanOrZero(trades) == IF Len(trades) > 0 THEN Mean(trades) ELSE R(0)

\* abs(x) of a float
AbsValue(x) == Rat(Abs(x[1]), x[2])

\* faulty variant: the division is made whatever the sum of the losses
ProfitFactorUnguarded(winning_sum, losing_sum) ==
    AbsValue(Div(winning_sum, losing_sum))

\* profit_factor = abs(winning_sum / losing_sum) if losing_sum != 0 else 0
ProfitFactor(winning_sum, losing_sum) ==
    IF losing_sum # R(0) THEN AbsValue(Div(winning_sum, losing_sum)) ELSE R(0)

\* n_trades = (position_changes != 0).sum() if 'Position' in df.columns else 0
NTrades(df) ==
    IF "Position" \in DOMAIN df THEN CountNonZero(position_changes(df)) ELSE 0

\* the local variables of calculate_metrics once past its early returns
MetricsLocals(df, risk_free_rate) ==
    LET returns           == Finite(df.Strategy_Returns)
        portfolio_values  == Finite(df.Portfolio_Value)
        total_return      == TotalReturn(portfolio_values[1],
                                         portfolio_values[Len(portfolio_values)])
        annual_return     == AnnualReturn(total_return, NRows(df))
        annual_volatility == AnnualVolatility(SampleVar(returns))
        excess_return     == ExprSub(annual_return, Exact(risk_free_rate))
        negative_returns  == SelectSeq(returns, IsNegative)
        max_drawdown      == MaxDrawdown(returns)
        winning_trades    == SelectSeq(returns, IsPositive)
        losing_trades     == SelectSeq(returns, IsNegative)
    IN  [initial_value |-> portfolio_values[1],
         final_value |-> portfolio_values[Len(portfolio_values)],
         total_return |-> total_return,
         annual_return |-> annual_return,
         annual_volatility |-> annual_volatility,
         sharpe_ratio |-> SharpeRatio(excess_return, annual_volatility),
         sortino_ratio |-> SortinoRatio(excess_return, negative_returns,
                                        SampleVar(negative_returns)),
         max_drawdown |-> max_drawdown,
         calmar_ratio |-> CalmarRatio(annual_return, max_drawdown),
         win_rate |-> WinRate(returns, winning_trades),
         avg_win |-> MeanOrZero(winning_trades),
         avg_loss |-> MeanOrZero(losing_trades),
         profit_factor |-> ProfitFactor(SumSeq(winning_trades), SumSeq(losing_trades)),
         n_trades |-> NTrades(df)]

\* faulty variant: a single finite portfolio value is enough
ReturnsEmptyBelowOne(df) ==
    \/ "Strategy_Returns" \notin DOMAIN df
    \/ "Portfolio_Value" \notin DOMAIN df
    \/ Len(Finite(df.Strategy_Returns)) = 0
    \/ Len(Finite(df.Portfolio_Value)) < 1

\* the early returns of calculate_metrics: a column is missing, no finite
\* return is left, or fewer than 2 finite portfolio values are left
ReturnsEmpty(df) ==
    \/ "Strategy_Returns" \notin DOMAIN df
    \/ "Portfolio_Value" \notin DOMAIN df
    \/ Len(Finite(df.Strategy_Returns)) = 0
    \/ Len(Finite(df.Portfolio_Value)) < 2

\* the report {} of the early returns
EmptyReport == <<>>

\* faulty variant: the trade count is left out
MetricNamesWithoutTrades ==
    <<"Valeur Initiale", "Valeur Finale", "Rendement Total", "Rendement Annualise",
      "Volatilite Annualisee", "Ratio de Sharpe", "Ratio de Sortino",
      "Maximum Drawdown", "Ratio Calmar", "Taux de Reussite", "Gain Moyen",
      "Perte Moyenne", "Profit Factor">>

\* the keys of a full report, in the order of the returned dict
MetricNames ==
    <<"Valeur Initiale", "Valeur Finale", "Rendement Total", "Rendement Annualise",
      "Volatilite Annualisee", "Ratio de Sharpe", "Ratio de Sortino",
      "Maximum Drawdown", "Ratio Calmar", "Taux de Reussite", "Gain Moyen",
      "Perte Moyenne", "Profit Factor", "Nombre de Trades">>

\* the returned dict, each value formatted by safe_value
Report(m) ==
    [name \in {MetricNames[j] : j \in 1..Len(MetricNames)} |->
        CASE name = "Valeur Initiale" -> safe_value(m.initial_value, 2, " EUR")
          [] name = "Valeur Finale" -> safe_value(m.final_value, 2, " EUR")
          [] name = "Rendement Total" ->
               safe_value(Mul(m.total_return, R(100)), 2, "%")
          [] name = "Rendement Annualise" ->
               safe_expr(ExprTimes100(m.annual_return), 2, "%")
          [] name = "Volatilite Annualisee" ->
               safe_expr(ExprTimes100(m.annual_volatility), 2, "%")
          [] name = "Ratio de Sharpe" -> safe_expr(m.sharpe_ratio, 2, "")
          [] name = "Ratio de Sortino" -> safe_expr(m.sortino_ratio, 2, "")
          [] name = "Maximum Drawdown" ->
               safe_value(Mul(m.max_drawdown, R(100)), 2, "%")
          [] name = "Ratio Calmar" -> safe_expr(m.calmar_ratio, 2, "")
          [] name = "Taux de Reussite" -> safe_value(m.win_rate, 1, "%")
          [] name = "Gain Moyen" -> safe_value(Mul(m.avg_win, R(100)), 2, "%")
          [] name = "Perte Moyenne" -> safe_value(Mul(m.avg_loss, R(100)), 2, "%")
          [] name = "Profit Factor" -> safe_value(m.profit_factor, 2, "")
          [] name = "Nombre de Trades" ->
               [number |-> R(m.n_trades), decimals |-> 0, suffix |-> ""]]

calculate_metrics(df, risk_free_rate) ==
    IF ReturnsEmpty(df) THEN EmptyReport
    ELSE Report(MetricsLocals(df, risk_free_rate))

\* a missing cell of the comparison table (NaN after the transposition)
MissingCell == [nan |-> TRUE]

\* faulty variant: the rows come out in reverse order
TransposedReversed(comparison) ==
    LET columns == UNION {DOMAIN comparison[j].metrics : j \in 1..Len(comparison)}
        n       == Len(comparison)
    IN  Col([j \in 1..n |->
           [name |-> comparison[n + 1 - j].name,
            row  |-> [c \in columns |->
                        IF c \in DOMAIN comparison[n + 1 - j].metrics
                        THEN comparison[n + 1 - j].metrics[c]
                        ELSE MissingCell]]])

\* pd.DataFrame(comparison).T: one row per key of comparison, in insertion
\* order, and one column per metric name that occurs in some report
Transposed(comparison) ==
    LET columns == UNION {DOMAIN comparison[j].metrics : j \in 1..Len(comparison)}
    IN  Col([j \in 1..Len(comparison) |->
           [name |-> comparison[j].name,
            row  |-> [c \in columns |->
                        IF c \in DOMAIN comparison[j].metrics
                        THEN comparison[j].metrics[c]
                        ELSE MissingCell]]])

\* compare_strategies: results is the dict as the sequence of its items
compare_strategies(results, risk_free_rate) ==
    Transposed(Col([j \in 1..Len(results) |->
        [name |-> results[j].name,
         metrics |-> calculate_metrics(results[j].df, risk_free_rate)]]))

\* ------------------------------------------------------------ the program
\* price levels: a zero close, and closes whose ratios give period returns of
\* -100%, -2/3, 0, +200% and +infinity
Prices == {0, 1, 3}

\* closes of a price table: every series of 1..MaxLen price levels, and the
\* series 100, 110, 121
Closes ==
    UNION {[1..n -> Prices] : n \in 1..MaxLen} \cup {<<100, 110, 121>>}

ToSeries(c) == Col([t \in 1..Len(c) |-> R(c[t])])

\* price tables: Close alone (an instrument without High/Low), or with
\* High = Close + 1 and Low = Close - 1 (not below 0)
DataSet ==
    {[Close |-> ToSeries(c)] : c \in Closes}
    \cup {[Close |-> ToSeries(c),
           High |-> Col([t \in 1..Len(c) |-> R(c[t] + 1)]),
           Low |-> Col([t \in 1..Len(c) |-> R(IF c[t] = 0 THEN 0 ELSE c[t] - 1)])] :
          c \in Closes}

Capitals == {-100, 0, 100}

Windows == 1..MaxWindow

\* (oversold, overbought): the defaults, and the two levels swapped
RsiLevels == {<<30, 70>>, <<70, 30>>}

StochLevels == {<<20, 80>>, <<80, 20>>}

StdDevs == {1, 2}

\* the keyword arguments the single-strategy flow can pass for a strategy
ParamSet(name) ==
    CASE name = "Buy and Hold" -> {[none |-> TRUE]}
      [] name = "SMA Crossover" ->
           [short_window_sma : Windows, long_window_sma : Windows]
      [] name = "EMA Crossover" ->
           [short_window_ema : Windows, long_window_ema : Windows]
      [] name = "RSI" ->
           {[rsi_window |-> w, rsi_oversold |-> l[1], rsi_overbought |-> l[2]] :
              w \in Windows, l \in RsiLevels}
      [] name = "MACD" -> [fast : Windows, slow : Windows, signal : Windows]
      [] name = "Bollinger Bands" -> [window : Windows, std_dev : StdDevs]
      [] name = "Stochastic" ->
           {[k_window |-> w[1], d_window |-> w[2],
             oversold |-> l[1], overbought |-> l[2]] :
              w \in Windows \X Windows, l \in StochLevels}

None == [none |-> TRUE]

\* other_data and other_result hold a second, independent run of the selected
\* strategy on another price table (used to compare two runs); call holds the
\* arguments and the outcome of a direct call of a function of metrics.py
VARIABLES data, initial_capital, pc, selected_strategy, strategy_params,
          result, metrics, i, results, warnings, comparison_df,
          other_data, other_result, call

vars == <<data, initial_capital, pc, selected_strategy, strategy_params,
          result, metrics, i, results, warnings, comparison_df,
          other_data, other_result, call>>

second == <<other_data, other_result>>

Init ==
    /\ data \in DataSet
    /\ initial_capital \in Capitals
    /\ pc = "start"
    /\ selected_strategy = "none"
    /\ strategy_params = None
    /\ result = None
    /\ metrics = None
    /\ i = 1
    /\ results = <<>>
    /\ warnings = <<>>
    /\ comparison_df = None
    /\ other_data = None
    /\ other_result = None
    /\ call = None

\* single-strategy flow: the strategy runs and its metrics are computed
RunSingle(name, p) ==
    /\ pc = "start"
    /\ ~Raises(name, data)
    /\ selected_strategy' = name
    /\ strategy_params' = p
    /\ result' = CallStrategy(name, data, p, initial_capital)
    /\ metrics' = calculate_metrics(result', DefaultRiskFreeRate)
    /\ data' = ArgumentAfterCall(data, result')
    /\ pc' = "shown"
    /\ UNCHANGED <<initial_capital, i, results, warnings, comparison_df, second, call>>

\* single-strategy flow: the strategy raises, nothing catches it
RunSingleRaises(name, p) ==
    /\ pc = "start"
    /\ Raises(name, data)
    /\ selected_strategy' = name
    /\ strategy_params' = p
    /\ pc' = "error"
    /\ UNCHANGED <<data, initial_capital, result, metrics, i, results, warnings,
                   comparison_df, second, call>>

\* calculate_metrics called on a table that no strategy has augmented
CalculateMetricsCall ==
    /\ pc = "start"
    /\ selected_strategy' = "none"
    /\ result' = data
    /\ metrics' = calculate_metrics(data, DefaultRiskFreeRate)
    /\ pc' = "shown"
    /\ UNCHANGED <<data, initial_capital, strategy_params, i, results, warnings,
                   comparison_df, second, call>>

\* compare-all flow: results = {} and the loop over the registry starts
CompareStart ==
    /\ pc = "start"
    /\ pc' = "loop"
    /\ i' = 1
    /\ results' = <<>>
    /\ UNCHANGED <<data, initial_capital, selected_strategy, strategy_params,
                   result, metrics, warnings, comparison_df, second, call>>

\* one iteration of the loop whose strategy call returns
CompareStep ==
    /\ pc = "loop"
    /\ i <= Len(STRATEGIES)
    /\ ~Raises(STRATEGIES[i], data)
    /\ results' = Append(results,
                    [name |-> STRATEGIES[i],
                     df |-> CallStrategy(STRATEGIES[i], data, DefaultParams,
                                         initial_capital)])
    /\ data' = ArgumentAfterCall(data, results'[Len(results')].df)
    /\ i' = i + 1
    /\ UNCHANGED <<initial_capital, pc, selected_strategy, strategy_params,
                   result, metrics, warnings, comparison_df, second, call>>

\* faulty variant: the failing strategy is entered in results all the same
CompareStepRaisesKeeps ==
    /\ pc = "loop"
    /\ i <= Len(STRATEGIES)
    /\ Raises(STRATEGIES[i], data)
    /\ warnings' = Append(warnings, STRATEGIES[i])
    /\ results' = Append(results, [name |-> STRATEGIES[i], df |-> None])
    /\ i' = i + 1
    /\ UNCHANGED <<data, initial_capital, pc, selected_strategy, strategy_params,
                   result, metrics, comparison_df, second, call>>

\* one iteration whose strategy call raises: the except clause warns
CompareStepRaises ==
    /\ pc = "loop"
    /\ i <= Len(STRATEGIES)
    /\ Raises(STRATEGIES[i], data)
    /\ warnings' = Append(warnings, STRATEGIES[i])
    /\ i' = i + 1
    /\ UNCHANGED <<data, initial_capital, pc, selected_strategy, strategy_params,
                   result, metrics, results, comparison_df, second, call>>

\* after the loop: comparison_df = compare_strategies(results)
CompareTable ==
    /\ pc = "loop"
    /\ i > Len(STRATEGIES)
    /\ comparison_df' = compare_strategies(results, DefaultRiskFreeRate)
    /\ pc' = "done"
    /\ UNCHANGED <<data, initial_capital, selected_strategy, strategy_params,
                   result, metrics, i, results, warnings, second, call>>

\* ---------------------------------------- direct calls of compare_strategies
\* Series.replace([inf, -inf], nan).dropna() keeps a text cell
IsKept(x) == IsText(x) \/ IsFinite(x)

\* calculate_metrics raises TypeError at `initial_value > 0` when no early
\* return is taken and the first portfolio value it kept is text
MetricsRaises(df) ==
    /\ "Strategy_Returns" \in DOMAIN df
    /\ "Portfolio_Value" \in DOMAIN df
    /\ Len(Finite(df.Strategy_Returns)) > 0
    /\ Len(SelectSeq(df.Portfolio_Value, IsKept)) >= 2
    /\ IsText(SelectSeq(df.Portfolio_Value, IsKept)[1])

\* compare_strategies calls calculate_metrics in a loop with no try/except:
\* the first entry that raises ends the call
CompareRaises(mapping) == \E j \in 1..Len(mapping) : MetricsRaises(mapping[j].df)

\* a timeline whose Portfolio_Value column holds text
WithTextValues(df) ==
    [df EXCEPT !.Portfolio_Value = Col([t \in 1..Len(df.Portfolio_Value) |-> Text])]

\* keys of the mappings passed to compare_strategies, in insertion order
MappingOrders ==
    {<<>>, <<"SMA Crossover", "Buy and Hold">>,
     <<"RSI", "SMA Crossover", "Buy and Hold">>}

\* keyword arguments of the runs that fill a mapping
MappingParams ==
    [short_window_sma |-> 1, long_window_sma |-> 2,
     rsi_window |-> 1, rsi_oversold |-> 30, rsi_overbought |-> 70]

\* the timeline of entry j of a mapping; entry `bad` holds text
MappingEntry(name, isBad, table, capital) ==
    IF isBad
    THEN WithTextValues(CallStrategy(name, table, MappingParams, capital))
    ELSE CallStrategy(name, table, MappingParams, capital)

\* the positions an entry with text values can take: none (0), or one on
\* which calculate_metrics raises
BadPositions(order, table, capital) ==
    {0} \cup {b \in 1..Len(order) :
                MetricsRaises(MappingEntry(order[b], TRUE, table, capital))}

Mapping(order, bad, table, capital) ==
    Col([j \in 1..Len(order) |->
        [name |-> order[j], df |-> MappingEntry(order[j], j = bad, table, capital)]])

Mappings(table, capital) ==
    UNION {{Mapping(order, bad, table, capital) :
              bad \in BadPositions(order, table, capital)} : order \in MappingOrders}

RiskFreeRates == {Rat(2, 100), Rat(5, 100)}

\* compare_strategies(results, risk_free_rate) returns its table
CompareStrategiesCall ==
    /\ pc = "start"
    /\ \E mapping \in Mappings(data, initial_capital) : \E rate \in RiskFreeRates :
          /\ ~CompareRaises(mapping)
          /\ call' = [results |-> mapping, risk_free_rate |-> rate]
          /\ comparison_df' = compare_strategies(mapping, rate)
    /\ pc' = "compared"
    /\ UNCHANGED <<data, initial_capital, selected_strategy, strategy_params,
                   result, metrics, i, results, warnings, second>>

\* compare_strategies(results, risk_free_rate) raises: no table is returned
CompareStrategiesCallRaises ==
    /\ pc = "start"
    /\ \E mapping \in Mappings(data, initial_capital) :
          /\ CompareRaises(mapping)
          /\ call' = [results |-> mapping, risk_free_rate |-> DefaultRiskFreeRate]
    /\ pc' = "raised"
    /\ UNCHANGED <<data, initial_capital, selected_strategy, strategy_params,
                   result, metrics, i, results, warnings, comparison_df, second>>

\* ------------------------------------------------ direct calls of safe_value
\* values passed to safe_value: None, NaN, the infinities, text and floats
SafeValueInputs ==
    <<NoValue, NaN, Inf, NegInf, Text, R(0), Rat(1, 3), Rat(-5, 2)>>

\* safe_value(value, "{:.2f}")
SafeValueCall ==
    /\ pc = "start"
    /\ \E j \in 1..Len(SafeValueInputs) :
          call' = [value |-> SafeValueInputs[j],
                   text |-> safe_value(SafeValueInputs[j], 2, "")]
    /\ pc' = "formatted"
    /\ UNCHANGED <<data, initial_capital, selected_strategy, strategy_params,
                   result, metrics, i, results, warnings, comparison_df, second>>

StrategyNames == {STRATEGIES[j] : j \in 1..Len(STRATEGIES)}

Next ==
    \/ \E name \in StrategyNames : \E p \in ParamSet(name) : RunSingle(name, p)
    \/ \E name \in StrategyNames : \E p \in ParamSet(name) : RunSingleRaises(name, p)
    \/ CalculateMetricsCall
    \/ CompareStart
    \/ CompareStep
    \/ CompareStepRaises
    \/ CompareTable
    \/ CompareStrategiesCall
    \/ CompareStrategiesCallRaises
    \/ SafeValueCall

Spec == Init /\ [][Next]_vars

\* ------------------------------------------- two runs of the same strategy
\* two price tables of the same length and columns
PairPrices == {1, 3}

PairCloses == UNION {[1..n -> PairPrices] : n \in 1..MaxLen}

PairTable(c) ==
    [Close |-> ToSeries(c),
     High |-> Col([t \in 1..Len(c) |-> R(c[t] + 1)]),
     Low |-> Col([t \in 1..Len(c) |-> R(c[t] - 1)])]

InitPair ==
    /\ \E c \in PairCloses : \E c2 \in PairCloses :
          /\ Len(c) = Len(c2)
          /\ data = PairTable(c)
          /\ other_data = PairTable(c2)
    /\ initial_capital = 100
    /\ pc = "start"
    /\ selected_strategy = "none"
    /\ strategy_params = None
    /\ result = None
    /\ metrics = None
    /\ i = 1
    /\ results = <<>>
    /\ warnings = <<>>
    /\ comparison_df = None
    /\ other_result = None
    /\ call = None

\* the selected strategy, with the same parameters, on each of the two tables
RunPair(name, p) ==
    /\ pc = "start"
    /\ selected_strategy' = name
    /\ strategy_params' = p
    /\ result' = CallStrategy(name, data, p, initial_capital)
    /\ other_result' = CallStrategy(name, other_data, p, initial_capital)
    /\ pc' = "paired"
    /\ UNCHANGED <<data, other_data, initial_capital, metrics, i, results,
                   warnings, comparison_df, call>>

NextPair ==
    \E name \in StrategyNames : \E p \in ParamSet(name) : RunPair(name, p)

SpecPair == InitPair /\ [][NextPair]_vars

\* ------------------------------------- runs on tables with days of no range
\* rows <<Close, Low, High>>: two days of a wide range and a day on which
\* High = Low = Close
RangeRows == {<<1, 1, 11>>, <<2, 1, 11>>, <<2, 2, 2>>}

RangeTables ==
    {[Close |-> Col([t \in 1..Len(rows) |-> R(rows[t][1])]),
      Low   |-> Col([t \in 1..Len(rows) |-> R(rows[t][2])]),
      High  |-> Col([t \in 1..Len(rows) |-> R(rows[t][3])])] :
        rows \in UNION {[1..n -> RangeRows] : n \in 1..MaxLen}}

InitRange ==
    /\ data \in RangeTables
    /\ initial_capital = 100
    /\ pc = "start"
    /\ selected_strategy = "none"
    /\ strategy_params = None
    /\ result = None
    /\ metrics = None
    /\ i = 1
    /\ results = <<>>
    /\ warnings = <<>>
    /\ comparison_df = None
    /\ other_data = None
    /\ other_result = None
    /\ call = None

NextRange ==
    \E name \in StrategyNames : \E p \in ParamSet(name) : RunSingle(name, p)

SpecRange == InitRange /\ [][NextRange]_vars

\* ------------------------------- Stochastic runs on tables of a fixed range
CrossLen == 4

\* rows <<Close, Low, High>> of a constant range 1..21, on which %K with
\* k_window = 1 is 5 * (Close - 1): 0, 15 and 20
CrossRows == {<<1, 1, 21>>, <<4, 1, 21>>, <<5, 1, 21>>}

CrossTables ==
    {[Close |-> Col([t \in 1..CrossLen |-> R(rows[t][1])]),
      Low   |-> Col([t \in 1..CrossLen |-> R(rows[t][2])]),
      High  |-> Col([t \in 1..CrossLen |-> R(rows[t][3])])] :
        rows \in [1..CrossLen -> CrossRows]}

\* k_window 1, d_window 2 or 3, and the default levels
CrossParams ==
    {[k_window |-> 1, d_window |-> d,
      oversold |-> DefaultParams.oversold, overbought |-> DefaultParams.overbought] :
        d \in {2, 3}}

InitCross ==
    /\ data \in CrossTables
    /\ initial_capital = 100
    /\ pc = "start"
    /\ selected_strategy = "none"
    /\ strategy_params = None
    /\ result = None
    /\ metrics = None
    /\ i = 1
    /\ results = <<>>
    /\ warnings = <<>>
    /\ comparison_df = None
    /\ other_data = None
    /\ other_result = None
    /\ call = None

NextCross == \E p \in CrossParams : RunSingle("Stochastic", p)

SpecCross == InitCross /\ [][NextCross]_vars

\* ------------------------------------------------------------- properties
\* the strategy runs of a state: the single run and the entries of results
Runs ==
    (IF pc = "shown" /\ selected_strategy # "none"
     THEN {[name |-> selected_strategy, df |-> result]} ELSE {})
    \cup {results[j] : j \in 1..Len(results)}

Rows(df) == 1..Len(df.Close)

AllPositive(s) == \A t \in 1..Len(s) : IsFinite(s[t]) /\ Greater(s[t], R(0))

\* C1 as stated: in every run, Position[t] = Signal[t-1] for every row after
\* the first, and Position on the first row is undefined or 0
C1_PositionLagsSignal ==
    \A r \in Runs :
        /\ \A t \in Rows(r.df) : t > 1 => r.df.Position[t] = r.df.Signal[t - 1]
        /\ r.df.Position[1] \in {NaN, R(0)}

\* C1 amended: Position[t] = Signal[t-1] for every row after the first in every
\* run; Position on the first row is undefined in every strategy but
\* buy-and-hold, whose Position is the constant 1 on every row
C1_PositionLagsSignalButHold ==
    \A r \in Runs :
        /\ \A t \in Rows(r.df) : t > 1 => r.df.Position[t] = r.df.Signal[t - 1]
        /\ r.name # "Buy and Hold" => r.df.Position[1] = NaN
        /\ r.name = "Buy and Hold" => \A t \in Rows(r.df) : r.df.Position[t] = R(1)

\* a run whose signal changes between two rows, the position following one row late
C1_Witness ==
    \E r \in Runs : \E t \in Rows(r.df) :
        /\ r.name # "Buy and Hold"
        /\ t > 1
        /\ r.df.Signal[t - 1] = R(-1)
        /\ r.df.Signal[t] = R(1)
        /\ r.df.Position[t] = R(-1)

\* the rows before t of two tables are the same
AgreeBefore(d1, d2, t) ==
    \A c \in DOMAIN d1 : \A k \in 1..(t - 1) : d1[c][k] = d2[c][k]

\* C2: two runs of a strategy on tables of equal length that agree on all
\* rows before a row t have the same Position on row t
C2_NoLookAhead ==
    pc = "paired" =>
        \A t \in Rows(data) :
            AgreeBefore(data, other_data, t)
                => result.Position[t] = other_result.Position[t]

\* two runs on tables that first differ on row t, whose signals differ on
\* row t and whose positions on row t are the same defined value
C2_Witness ==
    /\ pc = "paired"
    /\ \E t \in Rows(data) :
          /\ t > 1
          /\ AgreeBefore(data, other_data, t)
          /\ data.Close[t] # other_data.Close[t]
          /\ result.Signal[t] # other_result.Signal[t]
          /\ result.Position[t] = other_result.Position[t]
          /\ result.Position[t] # R(0)
          /\ ~IsNaN(result.Position[t])

\* C3: in every run on positive finite closes, on every row Strategy_Returns
\* is a number and Cumulative_Returns and Portfolio_Value are finite
C3_ReturnsAreNumbers ==
    \A r \in Runs :
        AllPositive(r.df.Close) =>
            \A t \in Rows(r.df) :
                /\ ~IsNaN(r.df.Strategy_Returns[t])
                /\ IsFinite(r.df.Cumulative_Returns[t])
                /\ IsFinite(r.df.Portfolio_Value[t])

\* the product of all of s[1..t], NaN entries included
RECURSIVE ProductAll(_, _)
ProductAll(s, t) == IF t = 0 THEN R(1) ELSE Mul(ProductAll(s, t - 1), s[t])

\* C4: in every run, on every row, Cumulative_Returns is the product of
\* (1 + Strategy_Returns) over the rows up to it and Portfolio_Value is
\* initial_capital times Cumulative_Returns
C4_Compounding ==
    \A r \in Runs : \A t \in Rows(r.df) :
        /\ r.df.Cumulative_Returns[t] = ProductAll(OnePlus(r.df.Strategy_Returns), t)
        /\ r.df.Portfolio_Value[t] = Mul(R(initial_capital), r.df.Cumulative_Returns[t])

\* C5: buy-and-hold on at least 2 positive closes ends at
\* initial_capital * Close[last] / Close[first]
C5_BuyAndHoldEnds ==
    \A r \in Runs :
        (r.name = "Buy and Hold" /\ Len(r.df.Close) >= 2 /\ AllPositive(r.df.Close)) =>
            LET n == Len(r.df.Close)
            IN  r.df.Portfolio_Value[n] =
                  Mul(R(initial_capital), Div(r.df.Close[n], r.df.Close[1]))

\* buy-and-hold over 100, 110, 121 with a capital of 100 ends at 121
C5_Witness ==
    \E r \in Runs :
        /\ r.name = "Buy and Hold"
        /\ r.df.Close = ToSeries(<<100, 110, 121>>)
        /\ initial_capital = 100
        /\ r.df.Portfolio_Value[3] = R(121)

\* the single-strategy flow has run a strategy and computed its report
Shown == pc = "shown" /\ selected_strategy # "none"

ZeroSignal(df) == \A t \in Rows(df) : df.Signal[t] = R(0)

\* the report has the metric `name` and its value prints as the number v
Reports(report, name, v) ==
    /\ name \in DOMAIN report
    /\ "number" \in DOMAIN report[name]
    /\ report[name].number = R(v)

\* C6 as stated: a run whose Signal is 0 on every row keeps Portfolio_Value at
\* initial_capital on every row, and its report has a trade count of 0 and a
\* win rate of 0
C6_ZeroSignalReportsZero ==
    (Shown /\ ZeroSignal(result)) =>
        /\ \A t \in Rows(result) : result.Portfolio_Value[t] = R(initial_capital)
        /\ Reports(metrics, "Nombre de Trades", 0)
        /\ Reports(metrics, "Taux de Reussite", 0)

\* C6 amended: a run whose Signal is 0 on every row keeps Portfolio_Value at
\* initial_capital on every row; on a series of at least 2 rows its report has
\* a trade count of 0 and a win rate of 0, on a single row its report is empty
C6_ZeroSignalTwoRows ==
    (Shown /\ ZeroSignal(result)) =>
        /\ \A t \in Rows(result) : result.Portfolio_Value[t] = R(initial_capital)
        /\ NRows(result) >= 2 =>
              /\ Reports(metrics, "Nombre de Trades", 0)
              /\ Reports(metrics, "Taux de Reussite", 0)
        /\ NRows(result) = 1 => metrics = EmptyReport

\* a zero-signal run over several rows with moving prices and a full report
C6_Witness ==
    /\ Shown
    /\ initial_capital = 100
    /\ AllPositive(result.Close)
    /\ ZeroSignal(result)
    /\ NRows(result) >= 2
    /\ result.Close[1] # result.Close[2]
    /\ Reports(metrics, "Nombre de Trades", 0)
    /\ Reports(metrics, "Taux de Reussite", 0)

\* C7: the maximum drawdown of every full report lies between -100% and 0%
\* (stated for the runs with a positive capital on positive closes)
C7_DrawdownBounded ==
    (Shown /\ metrics # EmptyReport /\ initial_capital > 0
        /\ AllPositive(result.Close)) =>
        /\ "number" \in DOMAIN metrics["Maximum Drawdown"]
        /\ Geq(metrics["Maximum Drawdown"].number, R(-100))
        /\ Leq(metrics["Maximum Drawdown"].number, R(0))

\* at least two rows, all finite, each greater than the one before
StrictlyIncreasing(s) ==
    /\ Len(s) >= 2
    /\ \A t \in 1..Len(s) : IsFinite(s[t])
    /\ \A t \in 1..(Len(s) - 1) : Less(s[t], s[t + 1])

\* C8 as stated: when Portfolio_Value is strictly increasing over all rows, the
\* report has a maximum drawdown of 0 and a Calmar ratio of 0
C8_IncreasingNoDrawdown ==
    (Shown /\ StrictlyIncreasing(result.Portfolio_Value)) =>
        /\ Reports(metrics, "Maximum Drawdown", 0)
        /\ Reports(metrics, "Ratio Calmar", 0)

\* C8 amended: with a positive initial_capital, when Portfolio_Value is
\* (finite and) strictly increasing over all rows, the report has a maximum
\* drawdown of 0 and a Calmar ratio of 0
C8_IncreasingNoDrawdownPositiveCapital ==
    (Shown /\ initial_capital > 0 /\ StrictlyIncreasing(result.Portfolio_Value)) =>
        /\ Reports(metrics, "Maximum Drawdown", 0)
        /\ Reports(metrics, "Ratio Calmar", 0)
        /\ MetricsLocals(result, DefaultRiskFreeRate).max_drawdown = R(0)

\* a run with a positive capital whose portfolio value rises on three rows
C8_Witness ==
    /\ Shown
    /\ initial_capital > 0
    /\ NRows(result) >= 3
    /\ StrictlyIncreasing(result.Portfolio_Value)
    /\ Reports(metrics, "Maximum Drawdown", 0)

\* C9: calculate_metrics returns the empty report when a required column is
\* missing, when no finite Strategy_Returns is left, or when fewer than 2
\* finite Portfolio_Value entries are left; so for every table of one row
C9_EmptyReport ==
    pc = "shown" =>
        /\ ( \/ "Strategy_Returns" \notin DOMAIN result
             \/ "Portfolio_Value" \notin DOMAIN result
             \/ Len(Finite(result.Strategy_Returns)) = 0
             \/ Len(Finite(result.Portfolio_Value)) < 2 ) => metrics = EmptyReport
        /\ NRows(result) = 1 => metrics = EmptyReport

\* a strategy run on several rows left with a single finite portfolio value,
\* and the empty report for it
C9_Witness ==
    /\ Shown
    /\ initial_capital = 100
    /\ NRows(result) >= 2
    /\ Len(Finite(result.Strategy_Returns)) >= 1
    /\ Len(Finite(result.Portfolio_Value)) = 1
    /\ metrics = EmptyReport

Names(entries) == {entries[j].name : j \in 1..Len(entries)}

\* C10: when the compare-all flow ends, a strategy that raised has no entry in
\* results and no row in the table, and every other strategy of the registry
\* has its entry and its row, the row holding the report of its timeline
C10_ComparatorIsolation ==
    pc = "done" =>
        /\ \A name \in StrategyNames :
              IF Raises(name, data)
              THEN name \notin Names(results) /\ name \notin Names(comparison_df)
              ELSE name \in Names(results) /\ name \in Names(comparison_df)
        /\ Len(comparison_df) = Len(results)
        /\ \A j \in 1..Len(results) :
              /\ comparison_df[j].name = results[j].name
              /\ \A c \in DOMAIN comparison_df[j].row :
                    LET report == calculate_metrics(results[j].df, DefaultRiskFreeRate)
                    IN  IF c \in DOMAIN report
                        THEN comparison_df[j].row[c] = report[c]
                        ELSE comparison_df[j].row[c] = MissingCell
              /\ DOMAIN calculate_metrics(results[j].df, DefaultRiskFreeRate)
                    \subseteq DOMAIN comparison_df[j].row

\* the compare-all flow ended after Stochastic raised: six entries, six rows
\* with their metrics, and a warning for Stochastic
C10_Witness ==
    /\ pc = "done"
    /\ initial_capital = 100
    /\ AllPositive(data.Close)
    /\ warnings = <<"Stochastic">>
    /\ Len(results) = 6
    /\ Len(comparison_df) = 6
    /\ \A j \in 1..6 : j # 1 => Reports(comparison_df[j].row, "Nombre de Trades", 0)

\* the names of the entries of a mapping on which calculate_metrics returns
Computable(mapping) ==
    {mapping[j].name : j \in {k \in 1..Len(mapping) : ~MetricsRaises(mapping[k].df)}}

\* C11: a call of compare_strategies on a mapping with an entry whose metrics
\* fail returns a table that holds the other entries and not the failing one
C11_FailureIsolated ==
    (pc \in {"compared", "raised"} /\ CompareRaises(call.results)) =>
        /\ pc = "compared"
        /\ Names(comparison_df) = Computable(call.results)

\* C12: the table compare_strategies returns has one row per key of the
\* mapping, in insertion order, and the row of a key holds the report that
\* calculate_metrics returns for its timeline with the given risk-free rate
\* (a column the report does not have is a missing cell)
C12_TableOfReports ==
    pc = "compared" =>
        /\ Len(comparison_df) = Len(call.results)
        /\ \A j \in 1..Len(call.results) :
              LET report == calculate_metrics(call.results[j].df, call.risk_free_rate)
                  row    == comparison_df[j].row
              IN  /\ comparison_df[j].name = call.results[j].name
                  /\ DOMAIN report \subseteq DOMAIN row
                  /\ \A c \in DOMAIN row :
                        row[c] = IF c \in DOMAIN report THEN report[c] ELSE MissingCell

\* a table of three rows for a rate of 5%, whose rows differ and hold a
\* Sharpe ratio that depends on the rate
C12_Witness ==
    /\ pc = "compared"
    /\ Len(call.results) = 3
    /\ call.risk_free_rate = Rat(5, 100)
    /\ comparison_df[1].name = "RSI"
    /\ comparison_df[3].name = "Buy and Hold"
    /\ comparison_df[1].row # comparison_df[2].row
    /\ LET other == calculate_metrics(call.results[1].df, DefaultRiskFreeRate)
       IN  /\ other # EmptyReport
           /\ comparison_df[1].row["Ratio de Sharpe"] # other["Ratio de Sharpe"]

\* the field is the sentinel, or the formatting of a finite number
Rendered(field) ==
    \/ field = NA
    \/ "number" \in DOMAIN field /\ IsFinite(field.number)
    \/ "expr" \in DOMAIN field /\ ExprIsFinite(field.expr)

\* the value is a finite float
IsNumber(value) == ~IsNoValue(value) /\ ~IsText(value) /\ IsFinite(value)

\* C13: safe_value returns the sentinel "N/A" for None, NaN, +infinity,
\* -infinity and a value whose formatting fails, and the formatting of the
\* number otherwise; every field of a non-empty report is the sentinel or the
\* formatting of a finite number
C13_NoNanRendering ==
    /\ pc = "formatted" =>
          IF IsNumber(call.value)
          THEN "number" \in DOMAIN call.text /\ IsFinite(call.text.number)
          ELSE call.text = NA
    /\ (pc = "shown" /\ metrics # EmptyReport) =>
          \A name \in DOMAIN metrics : Rendered(metrics[name])

\* safe_value was called on +infinity and returned the sentinel
C13_Witness ==
    /\ pc = "formatted"
    /\ IsInf(call.value)
    /\ call.text = NA

\* C14: every timeline returned by a strategy has the rows of the price table
\* it was given, as many and in the same order (every column has one cell per
\* row of the table), and the columns of the table keep their values
C14_SameRows ==
    \A r \in Runs :
        /\ \A c \in DOMAIN r.df : Len(r.df[c]) = Len(data.Close)
        /\ \A c \in DOMAIN data : c \in DOMAIN r.df /\ r.df[c] = data[c]

\* a Stochastic run on three rows whose first row has no indicator value
C14_Witness ==
    \E r \in Runs :
        /\ r.name = "Stochastic"
        /\ Len(data.Close) = 3
        /\ IsNaN(r.df.Stoch_K[1])
        /\ ~IsNaN(r.df.Stoch_K[3])
        /\ Len(r.df.Signal) = 3
        /\ r.df.High = data.High

\* C15: no step changes the price table, and no step changes a timeline that
\* an earlier strategy call of the compare-all loop returned
C15_InputUnchanged ==
    [][/\ data' = data
       /\ \A j \in 1..Len(results) :
             j <= Len(results') /\ results'[j] = results[j]]_vars

\* the compare-all loop has called six strategies on the table: the table has
\* its price columns alone and the first timeline is still buy-and-hold's
C15_Witness ==
    /\ pc = "loop"
    /\ Len(results) = 6
    /\ initial_capital = 100
    /\ DOMAIN data = {"Close", "High", "Low"}
    /\ Len(data.Close) = 3
    /\ results[1].df = strategy_buy_and_hold(data, initial_capital)
    /\ results[6].name = "Bollinger Bands"

\* the columns every strategy adds
TimelineColumns ==
    {"Signal", "Position", "Returns", "Strategy_Returns", "Cumulative_Returns",
     "Portfolio_Value"}

\* C16: with initial_capital <= 0 every run returns a full timeline whose
\* Portfolio_Value is initial_capital * Cumulative_Returns on every row, and a
\* report on a timeline whose first finite portfolio value is <= 0 has a
\* total return of 0
C16_NonPositiveCapital ==
    /\ initial_capital <= 0 =>
          \A r \in Runs :
              /\ TimelineColumns \subseteq DOMAIN r.df
              /\ \A c \in TimelineColumns : Len(r.df[c]) = Len(data.Close)
              /\ \A t \in Rows(r.df) :
                    r.df.Portfolio_Value[t] =
                        Mul(R(initial_capital), r.df.Cumulative_Returns[t])
    /\ (Shown /\ metrics # EmptyReport
          /\ Leq(Finite(result.Portfolio_Value)[1], R(0))) =>
          Reports(metrics, "Rendement Total", 0)

\* a report on a run with a negative capital whose portfolio value moved:
\* its total return is 0
C16_Witness ==
    /\ Shown
    /\ initial_capital = -100
    /\ metrics # EmptyReport
    /\ result.Portfolio_Value[1] = R(-100)
    /\ result.Portfolio_Value[Len(result.Portfolio_Value)] = R(-300)
    /\ Reports(metrics, "Rendement Total", 0)

SignalValues == {R(-1), R(0), R(1)}

\* C17: in every timeline Signal is -1, 0 or 1 on every row, and Position is
\* -1, 0 or 1 on every row where it is defined
C17_SignalRange ==
    \A r \in Runs : \A t \in Rows(r.df) :
        /\ r.df.Signal[t] \in SignalValues
        /\ IsNaN(r.df.Position[t]) \/ r.df.Position[t] \in SignalValues

\* a timeline of a propagating strategy with a long row, a short row and a
\* defined position
C17_Witness ==
    \E r \in Runs : \E t \in Rows(r.df) : \E u \in Rows(r.df) :
        /\ r.name \in {"RSI", "Bollinger Bands", "Stochastic"}
        /\ r.df.Signal[t] = R(1)
        /\ r.df.Signal[u] = R(-1)
        /\ r.df.Position[u] = R(1)

\* an indicator the strategy compares on row t has no value on that row
IndicatorUndefined(name, df, t) ==
    CASE name = "SMA Crossover" -> IsNaN(df.SMA_Short[t]) \/ IsNaN(df.SMA_Long[t])
      [] name = "EMA Crossover" -> IsNaN(df.EMA_Short[t]) \/ IsNaN(df.EMA_Long[t])
      [] name = "RSI" -> IsNaN(df.RSI[t])
      [] name = "MACD" -> IsNaN(df.MACD[t]) \/ IsNaN(df.MACD_Signal[t])
      [] name = "Bollinger Bands" -> IsNaN(df.BB_Mid[t]) \/ IsNaN(df.BB_Dev2[t])
      [] name = "Stochastic" -> IsNaN(df.Stoch_K[t]) \/ IsNaN(df.Stoch_D[t])
      [] OTHER -> FALSE

\* C18: in every run, every row on which an indicator of the strategy is
\* undefined has Signal = 0, also after an earlier non-zero signal
C18_UndefinedMeansNoSignal ==
    \A r \in Runs : \A t \in Rows(r.df) :
        IndicatorUndefined(r.name, r.df, t) => r.df.Signal[t] = R(0)

\* the keys of a report in the order the dict was filled
Keys(report) == IF report = EmptyReport THEN <<>> ELSE MetricNames

\* C19: every report is empty or has exactly the 14 metrics, in the order
\* initial value, final value, total return, annualized return, annualized
\* volatility, Sharpe, Sortino, maximum drawdown, Calmar, win rate, average
\* win, average loss, profit factor, trade count
C19_FullOrEmpty ==
    pc = "shown" =>
        \/ metrics = EmptyReport
        \/ /\ Keys(metrics) =
                <<"Valeur Initiale", "Valeur Finale", "Rendement Total",
                  "Rendement Annualise", "Volatilite Annualisee", "Ratio de Sharpe",
                  "Ratio de Sortino", "Maximum Drawdown", "Ratio Calmar",
                  "Taux de Reussite", "Gain Moyen", "Perte Moyenne", "Profit Factor",
                  "Nombre de Trades">>
           /\ DOMAIN metrics = {Keys(metrics)[j] : j \in 1..Len(Keys(metrics))}
           /\ Cardinality(DOMAIN metrics) = 14

\* a full report on a run of three rows in which the position changed
C19_Witness ==
    /\ Shown
    /\ initial_capital = 100
    /\ NRows(result) = 3
    /\ metrics # EmptyReport
    /\ Cardinality(DOMAIN metrics) = 14
    /\ ~Reports(metrics, "Nombre de Trades", 0)

\* the two lines a comparison strategy compares
ComparisonStrategies == {"SMA Crossover", "EMA Crossover", "MACD"}

FirstLine(name, df) ==
    CASE name = "SMA Crossover" -> df.SMA_Short
      [] name = "EMA Crossover" -> df.EMA_Short
      [] name = "MACD" -> df.MACD

SecondLine(name, df) ==
    CASE name = "SMA Crossover" -> df.SMA_Long
      [] name = "EMA Crossover" -> df.EMA_Long
      [] name = "MACD" -> df.MACD_Signal

\* C20: in every run of SMA crossover, EMA crossover or MACD, Signal[t] is +1
\* when the first line is strictly above the second on row t, -1 when strictly
\* below, and 0 when they are equal or one of them is undefined; nothing of
\* the earlier rows enters
C20_PointwiseComparison ==
    \A r \in Runs : r.name \in ComparisonStrategies =>
        \A t \in Rows(r.df) :
            LET a == FirstLine(r.name, r.df)[t]
                b == SecondLine(r.name, r.df)[t]
            IN  /\ Greater(a, b) => r.df.Signal[t] = R(1)
                /\ Less(a, b) => r.df.Signal[t] = R(-1)
                /\ (a = b \/ IsNaN(a) \/ IsNaN(b)) => r.df.Signal[t] = R(0)
                /\ Greater(a, b) \/ Less(a, b) \/ a = b \/ IsNaN(a) \/ IsNaN(b)

\* a comparison run with a long or short row followed by a row on which both
\* lines are defined and equal, and so without a signal
C20_Witness ==
    \E r \in Runs : \E t \in Rows(r.df) : \E u \in Rows(r.df) :
        /\ r.name \in ComparisonStrategies
        /\ t < u
        /\ r.df.Signal[t] # R(0)
        /\ IsFinite(FirstLine(r.name, r.df)[u])
        /\ FirstLine(r.name, r.df)[u] = SecondLine(r.name, r.df)[u]
        /\ r.df.Signal[u] = R(0)

\* the strategies that carry their signal forward
PersistingStrategies == {"RSI", "Bollinger Bands", "Stochastic"}

\* the Signal column of a persisting strategy before it is carried forward,
\* from the indicator columns of the timeline and the parameters of the run
RawTrigger(name, df, p) ==
    CASE name = "RSI" -> RsiSignal(df.RSI, p.rsi_oversold, p.rsi_overbought)
      [] name = "Bollinger Bands" -> BollingerSignal(df.Close, df.BB_Mid, df.BB_Dev2)
      [] name = "Stochastic" ->
           StochSignal(df.Stoch_K, df.Stoch_D, p.oversold, p.overbought)

\* the rows up to t whose trigger is not 0
Triggered(raw, t) == {u \in 1..t : raw[u] # R(0)}

\* C21: in a run of RSI, Bollinger Bands or Stochastic, Signal[t] is the raw
\* trigger of the latest row up to t whose raw trigger is not 0, and 0 on the
\* rows before the first such trigger
C21_LastTriggerCarried ==
    (Shown /\ selected_strategy \in PersistingStrategies) =>
        \A t \in Rows(result) :
            LET raw == RawTrigger(selected_strategy, result, strategy_params)
            IN  IF Triggered(raw, t) = {} THEN result.Signal[t] = R(0)
                ELSE \E u \in Triggered(raw, t) :
                        /\ \A v \in Triggered(raw, t) : v <= u
                        /\ result.Signal[t] = raw[u]

\* a run whose first row has no trigger yet and signal 0, whose second row
\* triggers, and whose third row has no trigger and keeps the second's signal
C21_Witness ==
    /\ Shown
    /\ selected_strategy \in PersistingStrategies
    /\ NRows(result) = 3
    /\ LET raw == RawTrigger(selected_strategy, result, strategy_params)
       IN  /\ raw[1] = R(0) /\ result.Signal[1] = R(0)
           /\ raw[2] # R(0)
           /\ raw[3] = R(0) /\ result.Signal[3] = raw[2]

\* the oversold and the overbought condition of RSI and Bollinger Bands on row t
Oversold(name, df, p, t) ==
    CASE name = "RSI" -> Less(df.RSI[t], R(p.rsi_oversold))
      [] name = "Bollinger Bands" -> LeqLow(df.Close[t], df.BB_Mid[t], df.BB_Dev2[t])

Overbought(name, df, p, t) ==
    CASE name = "RSI" -> Greater(df.RSI[t], R(p.rsi_overbought))
      [] name = "Bollinger Bands" -> GeqHigh(df.Close[t], df.BB_Mid[t], df.BB_Dev2[t])

ThresholdStrategies == {"RSI", "Bollinger Bands"}

\* C22 as stated: in a run of RSI or Bollinger Bands every row on which the
\* oversold condition holds has Signal = +1 and every row on which the
\* overbought condition holds has Signal = -1, rows with both included
C22_ConditionsDecideSignal ==
    (Shown /\ selected_strategy \in ThresholdStrategies) =>
        \A t \in Rows(result) :
            /\ Oversold(selected_strategy, result, strategy_params, t)
                  => result.Signal[t] = R(1)
            /\ Overbought(selected_strategy, result, strategy_params, t)
                  => result.Signal[t] = R(-1)

\* C22 amended: every row on which the overbought condition holds has
\* Signal = -1, and every row on which the oversold condition holds and the
\* overbought condition does not has Signal = +1
C22_OverboughtWins ==
    (Shown /\ selected_strategy \in ThresholdStrategies) =>
        \A t \in Rows(result) :
            /\ Overbought(selected_strategy, result, strategy_params, t)
                  => result.Signal[t] = R(-1)
            /\ (/\ Oversold(selected_strategy, result, strategy_params, t)
                /\ ~Overbought(selected_strategy, result, strategy_params, t))
                  => result.Signal[t] = R(1)

\* a Bollinger run with a row that is only oversold and long, and a row on
\* which both conditions hold and the signal is short
C22_Witness ==
    /\ Shown
    /\ initial_capital = 100
    /\ selected_strategy = "Bollinger Bands"
    /\ \E t \in Rows(result) : \E u \in Rows(result) :
          /\ Oversold(selected_strategy, result, strategy_params, t)
          /\ ~Overbought(selected_strategy, result, strategy_params, t)
          /\ result.Signal[t] = R(1)
          /\ Oversold(selected_strategy, result, strategy_params, u)
          /\ Overbought(selected_strategy, result, strategy_params, u)
          /\ result.Signal[u] = R(-1)

\* C23: in a Stochastic run the signal turns to +1 only on a row on which %K
\* is above %D and below the oversold level and was not above %D on the row
\* before, and to -1 only on a row on which %K is below %D and above the
\* overbought level and was not below %D on the row before
C23_TriggerNeedsCross ==
    (Shown /\ selected_strategy = "Stochastic") =>
        \A t \in Rows(result) :
            LET k == result.Stoch_K
                d == result.Stoch_D
                turns(v) == result.Signal[t] = R(v)
                            /\ (t = 1 \/ result.Signal[t - 1] # R(v))
            IN  /\ turns(1) =>
                     /\ t > 1
                     /\ ~Greater(k[t - 1], d[t - 1])
                     /\ Greater(k[t], d[t])
                     /\ Less(k[t], R(strategy_params.oversold))
                /\ turns(-1) =>
                     /\ t > 1
                     /\ ~Less(k[t - 1], d[t - 1])
                     /\ Less(k[t], d[t])
                     /\ Greater(k[t], R(strategy_params.overbought))

\* the rows of a column that hold a finite value
FiniteRows(s) == {t \in 1..Len(s) : IsFinite(s[t])}

FirstFinite(s) == s[CHOOSE t \in FiniteRows(s) : \A u \in FiniteRows(s) : t <= u]

LastFinite(s) == s[CHOOSE t \in FiniteRows(s) : \A u \in FiniteRows(s) : u <= t]

\* the report shows the metric `name` as the finite number x printed with
\* k decimals
Shows(report, name, x, k) ==
    /\ name \in DOMAIN report
    /\ "number" \in DOMAIN report[name]
    /\ report[name].number = RoundTo(x, k)

\* C24: the total return of a report is final / initial - 1 when initial > 0
\* and 0 otherwise, initial and final being the first and the last finite
\* Portfolio_Value of the timeline (shown in percent with two decimals)
C24_TotalReturn ==
    (Shown /\ metrics # EmptyReport) =>
        LET initial == FirstFinite(result.Portfolio_Value)
            final   == LastFinite(result.Portfolio_Value)
        IN  Shows(metrics, "Rendement Total",
                  IF Greater(initial, R(0))
                  THEN Mul(Sub(Div(final, initial), R(1)), R(100))
                  ELSE R(0),
                  2)

\* a report on a timeline whose first Portfolio_Value is undefined: the first
\* value left is 110, the last 121, and the total return 10 %
C24_Witness ==
    /\ Shown
    /\ metrics # EmptyReport
    /\ IsNaN(result.Portfolio_Value[1])
    /\ FirstFinite(result.Portfolio_Value) = R(110)
    /\ LastFinite(result.Portfolio_Value) = R(121)
    /\ Reports(metrics, "Rendement Total", 10)

\* the total return of the timeline, as the statistics take it
TimelineTotalReturn(df) ==
    IF Greater(FirstFinite(df.Portfolio_Value), R(0))
    THEN Sub(Div(LastFinite(df.Portfolio_Value), FirstFinite(df.Portfolio_Value)), R(1))
    ELSE R(0)

\* the report shows the annualized return (1 + total) ^ (252 / periods) - 1,
\* in percent; a total return of 0 gives exactly 0
ShowsAnnualized(report, total, periods) ==
    IF total = R(0) THEN Reports(report, "Rendement Annualise", 0)
    ELSE /\ "Rendement Annualise" \in DOMAIN report
         /\ "expr" \in DOMAIN report["Rendement Annualise"]
         /\ report["Rendement Annualise"].expr =
               [k |-> "times100",
                of |-> [k |-> "pow_minus_1",
                        base |-> Add(R(1), total),
                        exp |-> Rat(252, periods)]]

\* C25: the annualized return of a report is 0 when the total return is at
\* most -1 or no period is counted, and (1 + total) ^ (252 / periods) - 1
\* otherwise, periods being the number of period returns that enter the
\* statistics (the finite Strategy_Returns)
C25_AnnualizedReturn ==
    (Shown /\ metrics # EmptyReport) =>
        LET total   == TimelineTotalReturn(result)
            periods == Cardinality(FiniteRows(result.Strategy_Returns))
        IN  IF periods = 0 \/ Leq(total, R(-1))
            THEN Reports(metrics, "Rendement Annualise", 0)
            ELSE ShowsAnnualized(metrics, total, periods)

\* the deviation of the values is undefined (fewer than two) or 0 (all equal)
NoDeviation(s) == Len(s) < 2 \/ \A t \in 1..Len(s) : s[t] = s[1]

\* C26: a ratio whose denominator is zero or undefined is reported as 0:
\* Sharpe when the returns have no deviation, Sortino when there is no
\* negative return, a single one, or negative returns without deviation,
\* Calmar when the maximum drawdown is 0, and the profit factor when the
\* negative returns sum to 0, whatever the positive returns
C26_ZeroDenominator ==
    (Shown /\ metrics # EmptyReport) =>
        LET returns  == Finite(result.Strategy_Returns)
            negative == SelectSeq(returns, IsNegative)
        IN  /\ NoDeviation(returns) => Reports(metrics, "Ratio de Sharpe", 0)
            /\ NoDeviation(negative) => Reports(metrics, "Ratio de Sortino", 0)
            /\ MaxDrawdown(returns) = R(0) => Reports(metrics, "Ratio Calmar", 0)
            /\ SumSeq(negative) = R(0) => Reports(metrics, "Profit Factor", 0)

\* a report on returns that are all equal to 10 %: positive returns, an
\* annualized return that is not 0, and the four ratios reported as 0
C26_Witness ==
    /\ Shown
    /\ metrics # EmptyReport
    /\ Finite(result.Strategy_Returns) = <<Rat(1, 10), Rat(1, 10)>>
    /\ ~Reports(metrics, "Rendement Annualise", 0)
    /\ Reports(metrics, "Ratio de Sharpe", 0)
    /\ Reports(metrics, "Ratio de Sortino", 0)
    /\ Reports(metrics, "Ratio Calmar", 0)
    /\ Reports(metrics, "Profit Factor", 0)

\* the rows of a column that hold a finite value above 0
GainRows(s) == {t \in FiniteRows(s) : Greater(s[t], R(0))}

\* C27: the win rate of a report is 100 times the number of finite period
\* returns above 0 over the number of all finite period returns (shown with
\* one decimal), so a return of exactly 0 counts below the line only; it lies
\* between 0 and 100
C27_WinRate ==
    (Shown /\ metrics # EmptyReport) =>
        /\ Shows(metrics, "Taux de Reussite",
                 Rat(100 * Cardinality(GainRows(result.Strategy_Returns)),
                     Cardinality(FiniteRows(result.Strategy_Returns))),
                 1)
        /\ Leq(R(0), metrics["Taux de Reussite"].number)
        /\ Leq(metrics["Taux de Reussite"].number, R(100))

\* a report on three finite returns of which one is 0, one a gain and one a
\* loss: the win rate is a third, shown as 33.3
C27_Witness ==
    /\ Shown
    /\ metrics # EmptyReport
    /\ Cardinality(FiniteRows(result.Strategy_Returns)) = 3
    /\ Cardinality(GainRows(result.Strategy_Returns)) = 1
    /\ \E t \in Rows(result) : result.Strategy_Returns[t] = R(0)
    /\ \E t \in Rows(result) : Less(result.Strategy_Returns[t], R(0))
    /\ metrics["Taux de Reussite"].number = Rat(333, 10)

\* Position on row t, an undefined Position counting as no position
HeldPosition(df, t) == IF IsNaN(df.Position[t]) THEN R(0) ELSE df.Position[t]

\* the rows after the first on which the position differs from the row before
ChangeRows(df) ==
    {t \in Rows(df) : t > 1 /\ HeldPosition(df, t) # HeldPosition(df, t - 1)}

\* C28: the trade count of a report is the number of rows after the first on
\* which Position differs from the row before, the undefined Position of the
\* first row counting as 0, so that an entry on the second row is a trade
C28_TradeCount ==
    (Shown /\ metrics # EmptyReport) =>
        Reports(metrics, "Nombre de Trades", Cardinality(ChangeRows(result)))

\* C29: with a positive initial_capital every non-empty report of a strategy
\* run shows initial_capital as its initial value, and as its total return
\* the last Portfolio_Value over initial_capital, minus 1
C29_InitialValueIsCapital ==
    (Shown /\ initial_capital > 0 /\ metrics # EmptyReport) =>
        /\ Reports(metrics, "Valeur Initiale", initial_capital)
        /\ Shows(metrics, "Rendement Total",
                 Mul(Sub(Div(LastFinite(result.Portfolio_Value), R(initial_capital)),
                         R(1)),
                     R(100)),
                 2)

\* C30: a run of any strategy on at least two closes, all positive and
\* finite, with a positive initial_capital has a non-empty report
C30_ReportNotEmpty ==
    (/\ Shown
     /\ initial_capital > 0
     /\ NRows(data) >= 2
     /\ AllPositive(data.Close)) => metrics # EmptyReport

====
